---- MODULE Spec2Model ----
(***************************************************************************)
(* Model of the generated Flutter plugin registrants                       *)
(*   linux/flutter/generated_plugin_registrant.cc    fl_register_plugins   *)
(*   windows/flutter/generated_plugin_registrant.cc  RegisterPlugins       *)
(*                                                                         *)
(* The registry, the registrar objects and the plugin's registration       *)
(* function are external.  They are modelled as an environment: a lookup   *)
(* may return any registrar handle, the null handle included, and every    *)
(* external call the two functions make is appended to the trace `log`.    *)
(* The host calls one registration function at a time (synchronous,        *)
(* single threaded) and may call either of them again after it returned.   *)
(***************************************************************************)
EXTENDS Integers, Sequences, FiniteSets

\* ---------------------------------------------------------------- bounds
MaxCalls == 2        \* invocations of a registration function per behaviour
MaxHandle == 2       \* distinct non-null registrar handles the registry may return
NumRegistries == 2   \* distinct registry objects the host may pass

\* ------------------------------------------------------------- constants
NULL == 0
Registries == 1..NumRegistries
Registrars == 1..MaxHandle
Handles == {NULL} \cup Registrars

LinuxPluginNameWrong == "UrlLauncherWindows"
LinuxPluginName == "UrlLauncherPlugin"

WindowsPluginName == "UrlLauncherWindows"

LinuxRegisterFn == "url_launcher_plugin_register_with_registrar"

WindowsRegisterFnWrong == "url_launcher_plugin_register_with_registrar"
WindowsRegisterFn == "UrlLauncherWindowsRegisterWithRegistrar"

VARIABLES
  pc,             \* position of the running call, "idle" when none runs
  registry,       \* the `registry` parameter of the running call
  registrar,      \* the registrar obtained by the running call
  refs,           \* refs[h]: references to registrar h owned by the registrant code
  liveRegistries, \* registry objects that exist (owned by the host)
  calls,          \* history of invocations: platform and registry argument
  log             \* trace of the external calls made by the registrant code

vars == <<pc, registry, registrar, refs, liveRegistries, calls, log>>

Event(op, name, fn, h) ==
  [call |-> Len(calls), op |-> op, registry |-> registry,
   name |-> name, fn |-> fn, h |-> h]

Init ==
  /\ pc = "idle"
  /\ registry = NULL
  /\ registrar = NULL
  /\ refs = [h \in Registrars |-> 0]
  /\ liveRegistries = Registries
  /\ calls = << >>
  /\ log = << >>

\* ------------------------------------------------------------------ Linux
\* The host calls fl_register_plugins(registry) with a valid registry.
fl_register_plugins_enter(r) ==
  /\ pc = "idle"
  /\ Len(calls) < MaxCalls
  /\ r \in liveRegistries
  /\ pc' = "l_lookup"
  /\ registry' = r
  /\ calls' = Append(calls, [plat |-> "linux", registry |-> r])
  /\ UNCHANGED <<registrar, refs, liveRegistries, log>>

\* Mutant: the lookup also destroys the registry it was given.
fl_register_plugins_lookup_destroys ==
  /\ pc = "l_lookup"
  /\ \E h \in Handles :
       /\ registrar' = h
       /\ refs' = IF h = NULL THEN refs ELSE [refs EXCEPT ![h] = @ + 1]
       /\ log' = Append(log, Event("lookup", LinuxPluginName, "-", h))
  /\ pc' = "l_register"
  /\ liveRegistries' = liveRegistries \ {registry}
  /\ UNCHANGED <<registry, calls>>

\* g_autoptr(FlPluginRegistrar) url_launcher_linux_registrar =
\*     fl_plugin_registry_get_registrar_for_plugin(registry, "UrlLauncherPlugin");
\* The result is a reference owned by the caller (held by the g_autoptr).
fl_register_plugins_lookup ==
  /\ pc = "l_lookup"
  /\ \E h \in Handles :
       /\ registrar' = h
       /\ refs' = IF h = NULL THEN refs ELSE [refs EXCEPT ![h] = @ + 1]
       /\ log' = Append(log, Event("lookup", LinuxPluginName, "-", h))
  /\ pc' = "l_register"
  /\ UNCHANGED <<registry, liveRegistries, calls>>

\* Mutant: a null check in front of the registration call.
fl_register_plugins_register_nullcheck ==
  /\ pc = "l_register"
  /\ log' = IF registrar = NULL THEN log
            ELSE Append(log, Event("register", "-", LinuxRegisterFn, registrar))
  /\ pc' = "l_cleanup"
  /\ UNCHANGED <<registry, registrar, refs, liveRegistries, calls>>

\* Mutant: the registration is skipped when an earlier call already did it.
fl_register_plugins_register_once ==
  /\ pc = "l_register"
  /\ log' = IF \E i \in 1..Len(log) : log[i].op = "register" /\ log[i].fn = LinuxRegisterFn
            THEN log
            ELSE Append(log, Event("register", "-", LinuxRegisterFn, registrar))
  /\ pc' = "l_cleanup"
  /\ UNCHANGED <<registry, registrar, refs, liveRegistries, calls>>

\* Mutant: the plugin is registered twice.
fl_register_plugins_register_twice ==
  /\ pc = "l_register"
  /\ log' = log \o << Event("register", "-", LinuxRegisterFn, registrar),
                      Event("register", "-", LinuxRegisterFn, registrar) >>
  /\ pc' = "l_cleanup"
  /\ UNCHANGED <<registry, registrar, refs, liveRegistries, calls>>

\* Mutant: a null lookup result is retried instead of being forwarded.
fl_register_plugins_register_retry ==
  /\ pc = "l_register"
  /\ IF registrar = NULL /\ Len(log) < 2 * MaxCalls
       THEN /\ pc' = "l_lookup"
            /\ log' = log
       ELSE /\ pc' = "l_cleanup"
            /\ log' = Append(log, Event("register", "-", LinuxRegisterFn, registrar))
  /\ UNCHANGED <<registry, registrar, refs, liveRegistries, calls>>

\* url_launcher_plugin_register_with_registrar(url_launcher_linux_registrar);
fl_register_plugins_register ==
  /\ pc = "l_register"
  /\ log' = Append(log, Event("register", "-", LinuxRegisterFn, registrar))
  /\ pc' = "l_cleanup"
  /\ UNCHANGED <<registry, registrar, refs, liveRegistries, calls>>

\* Mutant: the reference is not released at scope exit (plain pointer).
fl_register_plugins_cleanup_leak ==
  /\ pc = "l_cleanup"
  /\ pc' = "idle"
  /\ registrar' = NULL
  /\ registry' = NULL
  /\ UNCHANGED <<refs, log, liveRegistries, calls>>

\* Closing brace: the g_autoptr cleanup runs, g_object_unref on a non-null
\* pointer and nothing on a null one; the locals go out of scope and the
\* function returns.
fl_register_plugins_cleanup ==
  /\ pc = "l_cleanup"
  /\ IF registrar = NULL
       THEN UNCHANGED <<refs, log>>
       ELSE /\ refs' = [refs EXCEPT ![registrar] = @ - 1]
            /\ log' = Append(log, Event("unref", "-", "-", registrar))
  /\ pc' = "idle"
  /\ registrar' = NULL
  /\ registry' = NULL
  /\ UNCHANGED <<liveRegistries, calls>>

\* ---------------------------------------------------------------- Windows
\* The host calls RegisterPlugins(registry) with a valid registry.
RegisterPlugins_enter(r) ==
  /\ pc = "idle"
  /\ Len(calls) < MaxCalls
  /\ r \in liveRegistries
  /\ pc' = "w_lookup"
  /\ registry' = r
  /\ calls' = Append(calls, [plat |-> "windows", registry |-> r])
  /\ UNCHANGED <<registrar, refs, liveRegistries, log>>

\* registry->GetRegistrarForPlugin("UrlLauncherWindows"), evaluated as the
\* argument of the registration call: a plain pointer, no reference taken.
RegisterPlugins_lookup ==
  /\ pc = "w_lookup"
  /\ \E h \in Handles :
       /\ registrar' = h
       /\ log' = Append(log, Event("lookup", WindowsPluginName, "-", h))
  /\ pc' = "w_register"
  /\ UNCHANGED <<registry, refs, liveRegistries, calls>>

\* Mutant: the registration is called with a null registrar.
RegisterPlugins_register_null ==
  /\ pc = "w_register"
  /\ log' = Append(log, Event("register", "-", WindowsRegisterFn, NULL))
  /\ pc' = "idle"
  /\ registrar' = NULL
  /\ registry' = NULL
  /\ UNCHANGED <<refs, liveRegistries, calls>>

\* Mutant: the registrar is released after the registration, as on Linux.
RegisterPlugins_register_release ==
  /\ pc = "w_register"
  /\ log' = IF registrar = NULL
            THEN Append(log, Event("register", "-", WindowsRegisterFn, registrar))
            ELSE log \o << Event("register", "-", WindowsRegisterFn, registrar),
                           Event("unref", "-", "-", registrar) >>
  /\ pc' = "idle"
  /\ registrar' = NULL
  /\ registry' = NULL
  /\ UNCHANGED <<refs, liveRegistries, calls>>

\* UrlLauncherWindowsRegisterWithRegistrar(<the lookup's result>); then the
\* function returns.
RegisterPlugins_register ==
  /\ pc = "w_register"
  /\ log' = Append(log, Event("register", "-", WindowsRegisterFn, registrar))
  /\ pc' = "idle"
  /\ registrar' = NULL
  /\ registry' = NULL
  /\ UNCHANGED <<refs, liveRegistries, calls>>

\* ------------------------------------------------------------ specification
Steps ==
  \/ fl_register_plugins_lookup
  \/ fl_register_plugins_register
  \/ fl_register_plugins_cleanup
  \/ RegisterPlugins_lookup
  \/ RegisterPlugins_register

Next ==
  \/ \E r \in Registries : fl_register_plugins_enter(r)
  \/ fl_register_plugins_lookup
  \/ fl_register_plugins_register
  \/ fl_register_plugins_cleanup
  \/ \E r \in Registries : RegisterPlugins_enter(r)
  \/ RegisterPlugins_lookup
  \/ RegisterPlugins_register

Spec == Init /\ [][Next]_vars

\* The external lookup and the external registration call return, and the
\* function runs synchronously to its end: a started call keeps stepping.
LiveSpec == Spec /\ WF_vars(Steps)

\* ------------------------------------------------- reading the call trace
CallIds == 1..Len(calls)

\* Call n has returned.
Completed(n) == n \in CallIds /\ (n < Len(calls) \/ pc = "idle")

\* The external calls made by invocation n, in order.
EventsOf(n) == SelectSeq(log, LAMBDA e : e.call = n)

Lookups(n) == SelectSeq(EventsOf(n), LAMBDA e : e.op = "lookup")

Registrations(n) == SelectSeq(EventsOf(n), LAMBDA e : e.op = "register")

Releases(n) == SelectSeq(EventsOf(n), LAMBDA e : e.op = "unref")

\* The plugin name each platform is specified to look up.
ExpectedName(plat) ==
  IF plat = "linux" THEN "UrlLauncherPlugin" ELSE "UrlLauncherWindows"

\* The registration function that belongs to a plugin name.
OwnFn(name) ==
  IF name = "UrlLauncherPlugin"
    THEN "url_launcher_plugin_register_with_registrar"
    ELSE "UrlLauncherWindowsRegisterWithRegistrar"

\* ---------------------------------------------------------------------- C1
\* C1: one invocation of a registration function performs exactly one
\* registrar lookup, on the registry it was given, and the name looked up is
\* the platform's literal ("UrlLauncherPlugin" on Linux, "UrlLauncherWindows"
\* on Windows) whatever the registry argument and whatever happened in
\* earlier calls; a running call never has more than one lookup.
C1_OneLookupFixedName ==
  \A n \in CallIds :
    /\ Len(Lookups(n)) <= 1
    /\ \A i \in 1..Len(Lookups(n)) :
         /\ Lookups(n)[i].name = ExpectedName(calls[n].plat)
         /\ Lookups(n)[i].registry = calls[n].registry
    /\ Completed(n) => Len(Lookups(n)) = 1

\* Both platforms have been called, one after the other, on different
\* registries, and have returned.
C1_Witness ==
  \E m, n \in CallIds :
    /\ m < n /\ Completed(n)
    /\ calls[m].plat = "linux" /\ calls[n].plat = "windows"
    /\ calls[m].registry # calls[n].registry
    /\ Len(Lookups(m)) = 1 /\ Len(Lookups(n)) = 1

\* ---------------------------------------------------------------------- C2
\* C2 (Linux): for every handle H returned by the lookup of
\* "UrlLauncherPlugin", one call of fl_register_plugins makes exactly one
\* call of url_launcher_plugin_register_with_registrar, its argument is H,
\* and no other registration function is called.
C2_LinuxRegistersLookupResult ==
  \A n \in CallIds :
    (calls[n].plat = "linux" /\ Completed(n)) =>
      /\ Len(Lookups(n)) = 1
      /\ Len(Registrations(n)) = 1
      /\ Registrations(n)[1].fn = "url_launcher_plugin_register_with_registrar"
      /\ Registrations(n)[1].h = Lookups(n)[1].h

\* Every non-null handle has been returned to a Linux call that registered it.
C2_Witness ==
  \A H \in Registrars :
    \E n \in CallIds :
      /\ calls[n].plat = "linux" /\ Completed(n)
      /\ Len(Lookups(n)) = 1 /\ Lookups(n)[1].h = H
      /\ Len(Registrations(n)) = 1 /\ Registrations(n)[1].h = H

\* ---------------------------------------------------------------------- C3
\* C3 (Windows): for every handle H returned by the lookup of
\* "UrlLauncherWindows", one call of RegisterPlugins makes exactly one call
\* of UrlLauncherWindowsRegisterWithRegistrar, its argument is H, and no
\* other registration function is called.
C3_WindowsRegistersLookupResult ==
  \A n \in CallIds :
    (calls[n].plat = "windows" /\ Completed(n)) =>
      /\ Len(Lookups(n)) = 1
      /\ Len(Registrations(n)) = 1
      /\ Registrations(n)[1].fn = "UrlLauncherWindowsRegisterWithRegistrar"
      /\ Registrations(n)[1].h = Lookups(n)[1].h

\* Every non-null handle has been returned to a Windows call that registered it.
C3_Witness ==
  \A H \in Registrars :
    \E n \in CallIds :
      /\ calls[n].plat = "windows" /\ Completed(n)
      /\ Len(Lookups(n)) = 1 /\ Lookups(n)[1].h = H
      /\ Len(Registrations(n)) = 1 /\ Registrations(n)[1].h = H

\* ---------------------------------------------------------------------- C5
\* C5: in every reachable state, every registration call in the trace passes
\* a registrar that the same invocation obtained by looking up a name N, and
\* the function called is N's own registration function.
C5_RegistrarGoesToOwnPlugin ==
  \A i \in 1..Len(log) :
    log[i].op = "register" =>
      \E j \in 1..(i - 1) :
        /\ log[j].op = "lookup"
        /\ log[j].call = log[i].call
        /\ log[j].h = log[i].h
        /\ log[i].fn = OwnFn(log[j].name)

\* The same handle value was obtained under both names, by a Linux and by a
\* Windows call, and each call passed it to its own plugin.
C5_Witness ==
  \E i, j \in 1..Len(log) :
    /\ log[i].op = "register" /\ log[j].op = "register"
    /\ log[i].h = log[j].h /\ log[i].h # NULL
    /\ log[i].fn = "url_launcher_plugin_register_with_registrar"
    /\ log[j].fn = "UrlLauncherWindowsRegisterWithRegistrar"

\* ---------------------------------------------------------------------- C4
\* C4 (Linux): the reference fl_register_plugins acquires with the lookup is
\* owned by that call alone and is released exactly once: the code never owns
\* more than the one reference and never releases one it does not own (no
\* double release), after the call has returned it owns none (no leak), a
\* call that acquired a registrar has released it exactly once when it
\* returns, and every release comes after the registration call that was
\* given the same registrar.
C4_ScopedReferenceReleasedOnce ==
  /\ \A h \in Registrars : refs[h] \in {0, 1}
  /\ pc = "idle" => \A h \in Registrars : refs[h] = 0
  /\ \A h \in Registrars : refs[h] = 1 => (registrar = h /\ pc \in {"l_register", "l_cleanup"})
  /\ \A n \in CallIds :
       calls[n].plat = "linux" =>
         /\ Len(Releases(n)) <= 1
         /\ (Completed(n) /\ Len(Lookups(n)) = 1 /\ Lookups(n)[1].h # NULL)
              => Len(Releases(n)) = 1
  /\ \A i \in 1..Len(log) :
       log[i].op = "unref" =>
         \E j \in 1..(i - 1) :
           /\ log[j].op = "register"
           /\ log[j].call = log[i].call
           /\ log[j].h = log[i].h

\* A Linux call acquired a registrar, registered it, released it and returned.
C4_Witness ==
  \E n \in CallIds :
    /\ calls[n].plat = "linux" /\ Completed(n)
    /\ Len(Lookups(n)) = 1 /\ Lookups(n)[1].h # NULL
    /\ Len(Releases(n)) = 1 /\ Releases(n)[1].h = Lookups(n)[1].h
    /\ pc = "idle" /\ \A h \in Registrars : refs[h] = 0

\* ---------------------------------------------------------------------- C6
\* C6: a step of a running registration function never creates or destroys
\* a registry, never replaces the registry it was given, rewrites nothing of
\* the invocation history or of the trace already produced, and adds to the
\* trace at most one external call, which is the lookup, the plugin
\* registration, or (Linux) the release of the registrar it looked up.
C6_FrameOfRegistration ==
  [][ pc # "idle" =>
        /\ liveRegistries' = liveRegistries
        /\ calls' = calls
        /\ (pc' # "idle" => registry' = registry)
        /\ \/ log' = log
           \/ /\ Len(log') = Len(log) + 1
              /\ SubSeq(log', 1, Len(log)) = log
              /\ log'[Len(log')].call = Len(calls)
              /\ log'[Len(log')].registry = registry
              /\ log'[Len(log')].op \in {"lookup", "register", "unref"}
              /\ log'[Len(log')].op = "unref" =>
                   (calls[Len(calls)].plat = "linux" /\ log'[Len(log')].h = registrar)
    ]_vars

\* Both functions have run to their end on the same registry, which still
\* exists.
C6_Witness ==
  \E m, n \in CallIds :
    /\ Completed(m) /\ Completed(n)
    /\ calls[m].plat = "linux" /\ calls[n].plat = "windows"
    /\ calls[m].registry = calls[n].registry
    /\ calls[m].registry \in liveRegistries
    /\ Len(EventsOf(m)) >= 2 /\ Len(EventsOf(n)) = 2

\* ---------------------------------------------------------------------- C7
\* The lookups and registrations of invocation n, without the handles.
CallShape(n) ==
  LET es == SelectSeq(EventsOf(n), LAMBDA e : e.op \in {"lookup", "register"})
  IN  [i \in 1..Len(es) |-> <<es[i].op, es[i].name, es[i].fn>>]

\* C7: any two completed calls of the same registration function issued the
\* same sequence of lookup and registration calls (one lookup with the same
\* literal name, then one registration), each registration was given the
\* handle returned by the lookup of its own invocation, and between calls the
\* function holds nothing: no registry, no registrar, no reference.
C7_SameSequenceEveryCall ==
  /\ \A m, n \in CallIds :
       (Completed(m) /\ Completed(n) /\ calls[m].plat = calls[n].plat)
         => CallShape(m) = CallShape(n)
  /\ \A n \in CallIds :
       Completed(n) =>
         /\ Len(Lookups(n)) = 1
         /\ Len(Registrations(n)) = 1
         /\ Registrations(n)[1].h = Lookups(n)[1].h
         /\ CallShape(n)[1][1] = "lookup"
  /\ pc = "idle" =>
       (registry = NULL /\ registrar = NULL /\ \A h \in Registrars : refs[h] = 0)

\* The same function was called twice, the two lookups returned different
\* handles, and each call registered the handle of its own lookup.
C7_Witness ==
  \E m, n \in CallIds :
    /\ m < n /\ Completed(n)
    /\ calls[m].plat = calls[n].plat
    /\ Len(Lookups(m)) = 1 /\ Len(Lookups(n)) = 1
    /\ Lookups(m)[1].h # Lookups(n)[1].h
    /\ Len(Registrations(m)) = 1 /\ Len(Registrations(n)) = 1
    /\ Registrations(m)[1].h = Lookups(m)[1].h
    /\ Registrations(n)[1].h = Lookups(n)[1].h

\* ---------------------------------------------------------------------- C8
\* C8: the registration call does not depend on the lookup's result: once a
\* call is past its registration step the trace holds the registration with
\* exactly the value the lookup returned, the null handle included, and the
\* function emits nothing but lookups, registrations and releases (no status,
\* error or exception of its own).
C8_NoBranchOnFailure ==
  /\ \A n \in CallIds :
       (Completed(n) \/ (n = Len(calls) /\ pc = "l_cleanup")) =>
         /\ Len(Lookups(n)) = 1
         /\ Len(Registrations(n)) = 1
         /\ Lookups(n)[1].h = NULL => Registrations(n)[1].h = NULL
         /\ Lookups(n)[1].h # NULL => Registrations(n)[1].h # NULL
  /\ \A i \in 1..Len(log) : log[i].op \in {"lookup", "register", "unref"}

\* On both platforms a lookup returned null and the null was registered.
C8_Witness ==
  \E m, n \in CallIds :
    /\ Completed(m) /\ Completed(n)
    /\ calls[m].plat = "linux" /\ calls[n].plat = "windows"
    /\ Len(Lookups(m)) = 1 /\ Lookups(m)[1].h = NULL
    /\ Len(Lookups(n)) = 1 /\ Lookups(n)[1].h = NULL
    /\ Len(Registrations(m)) = 1 /\ Registrations(m)[1].h = NULL
    /\ Len(Registrations(n)) = 1 /\ Registrations(n)[1].h = NULL

\* ---------------------------------------------------------------------- C9
\* C9: RegisterPlugins (Windows) takes no ownership of the registrar: a
\* Windows call makes no release and the code owns no reference while it
\* runs; a Linux call that was given a registrar makes exactly one release,
\* as the last external call of the invocation, right after the registration.
C9_WindowsTransientLinuxScoped ==
  /\ \A n \in CallIds :
       calls[n].plat = "windows" => Len(Releases(n)) = 0
  /\ pc \in {"w_lookup", "w_register"} => \A h \in Registrars : refs[h] = 0
  /\ \A n \in CallIds :
       (calls[n].plat = "linux" /\ Completed(n)
          /\ Len(Lookups(n)) = 1 /\ Lookups(n)[1].h # NULL) =>
         /\ Len(Releases(n)) = 1
         /\ Len(EventsOf(n)) = 3
         /\ EventsOf(n)[2].op = "register"
         /\ EventsOf(n)[3].op = "unref"

\* A Windows call and a Linux call were given the same registrar; the
\* Windows call returned without a release, the Linux call with one.
C9_Witness ==
  \E m, n \in CallIds :
    /\ Completed(m) /\ Completed(n)
    /\ calls[m].plat = "windows" /\ calls[n].plat = "linux"
    /\ Len(Lookups(m)) = 1 /\ Len(Lookups(n)) = 1
    /\ Lookups(m)[1].h # NULL /\ Lookups(m)[1].h = Lookups(n)[1].h
    /\ Len(Releases(m)) = 0 /\ Len(Releases(n)) = 1

\* --------------------------------------------------------------------- C10
\* The fixed order of the positions of a call.
PcOrder ==
  { <<"idle", "l_lookup">>, <<"l_lookup", "l_register">>,
    <<"l_register", "l_cleanup">>, <<"l_cleanup", "idle">>,
    <<"idle", "w_lookup">>, <<"w_lookup", "w_register">>,
    <<"w_register", "idle">> }

\* A step moves the call to the next position of the fixed order.
InOrder == <<pc, pc'>> \in PcOrder

\* The external calls of every invocation are a prefix of lookup,
\* registration, release.
StraightLine ==
  \A n \in CallIds :
    /\ Len(EventsOf(n)) <= 3
    /\ \A i \in 1..Len(EventsOf(n)) :
         EventsOf(n)[i].op = <<"lookup", "register", "unref">>[i]

\* C10: given that the external calls return, every invocation terminates,
\* and it does so along the fixed sequence lookup, registration, (Linux)
\* release: each step moves to the next position of that sequence, never
\* back, the lookup is complete before the registration begins, and no
\* position is visited twice in a call.
C10_TerminatesStraightLine ==
  /\ (pc # "idle") ~> (pc = "idle")
  /\ [][InOrder]_vars
  /\ []StraightLine

\* A Linux call with its three external calls and a Windows call with its
\* two have both returned.
C10_Witness ==
  \E m, n \in CallIds :
    /\ Completed(m) /\ Completed(n)
    /\ calls[m].plat = "linux" /\ calls[n].plat = "windows"
    /\ Len(EventsOf(m)) = 3 /\ Len(EventsOf(n)) = 2
    /\ pc = "idle"

====
